---- MODULE Spec2Model ----
(***************************************************************************)
(* CRPClusterModel (src/CRP_cluster.ipynb): Chinese Restaurant Process     *)
(* clustering fitted by collapsed Gibbs sampling, with the Empirical Bayes *)
(* adjustment of the concentration parameter alpha.                        *)
(*                                                                         *)
(* Python lists are 0-based, TLA+ sequences 1-based: position j of a       *)
(* Python list is element j+1 of the sequence.  A cluster is a Python set  *)
(* object; the heap maps object identities to their contents, and          *)
(* clustering and cluster_assn hold identities, so that aliasing is        *)
(* modelled as the interpreter does it.  alpha is a Python float (the       *)
(* constructor is given a real, Empirical Bayes writes the float counter); *)
(* the model draws it from the integers.  Probabilities are kept as        *)
(* integer numerators over a common denominator.                           *)
(***************************************************************************)
EXTENDS Integers, Sequences, FiniteSets, TLC

\* ---------------------------------------------------------------- bounds
MaxN == 3          \* len(data) ranges over 1..MaxN
MaxNLik == 2       \* len(data) of the runs that vary the likelihood vector
MaxAlpha == 1      \* the constructor's alpha ranges over -MaxAlpha..MaxAlpha
MaxLik == 2        \* a likelihood entry of a positive provider is in 1..MaxLik
MaxIter == 3       \* the configured num_iter of the short runs
MaxFits == 2       \* calls of fit on one sampler under a seeded source
UDen == 3          \* a seeded uniform sample is one of 0/UDen .. (UDen-1)/UDen

\* ------------------------------------------------- constants of __init__
DefaultNumIter == 100
DefaultEbStart == 20
DefaultEbInterval == 5

VARIABLES
  \* fields of the sampler
  alpha, likelihood_fn, num_iter, eb_start, eb_interval,
  \* fit's argument and locals
  num_data, clustering, cluster_assn, heap, t, i, num_new_clusters,
  \* control: position in fit, and the exception that ended it
  pc, err,
  \* the randomness source: whether the caller seeds it before each fit, the
  \* samples the seed yields (revealed as they are consumed), the position
  seeded, stream, rng_pos,
  \* observation of the run (never read by the program)
  hist

vars == <<alpha, likelihood_fn, num_iter, eb_start, eb_interval,
          num_data, clustering, cluster_assn, heap, t, i, num_new_clusters,
          pc, err, seeded, stream, rng_pos, hist>>

\* ---------------------------------------------------------------- helpers
\* object identities: more than a run holds at once (at most N + 1 objects
\* are referred to at any time)
Ids == 1..(2 * MaxN + 2)

Range(s) == {s[j] : j \in DOMAIN s}

RECURSIVE SumSeq(_)
SumSeq(s) == IF s = <<>> THEN 0 ELSE s[1] + SumSeq(Tail(s))

Sgn(x) == IF x > 0 THEN 1 ELSE IF x < 0 THEN -1 ELSE 0

Abs(x) == IF x < 0 THEN -x ELSE x

\* Python's a % b for a >= 0 and b # 0: the result has the sign of b
PyMod(a, b) ==
  IF b > 0 THEN a % b
  ELSE LET r == a % (-b) IN IF r = 0 THEN 0 ELSE r + b

\* range(n) is empty for n <= 0
RangeLen(n) == IF n > 0 THEN n ELSE 0

\* set([i]) allocates a new object: an identity nothing refers to
NewObject(cl, ca) == CHOOSE o \in Ids :
  /\ o \notin Range(cl) \cup Range(ca)
  /\ \A p \in Ids : p < o => p \in Range(cl) \cup Range(ca)

\* a remove that leaves the emptied cluster in the list
ListRemove_keep(cl, hp, value) == cl

\* a remove that deletes the last cluster of the list, whichever was emptied
ListRemove_last(cl, hp, value) == SubSeq(cl, 1, Len(cl) - 1)

\* list.remove(value): delete the first element equal (by value) to it
RECURSIVE ListRemove(_, _, _)
ListRemove(cl, hp, value) ==
  IF cl = <<>> THEN <<>>
  ELSE IF hp[cl[1]] = value THEN Tail(cl)
  ELSE <<cl[1]>> \o ListRemove(Tail(cl), hp, value)

\* The identity of an object is observable only through equality (is, and the
\* aliasing of clustering[j] and cluster_assn[i]), so states are kept up to a
\* renaming of the identities: the objects are numbered in the order in which
\* clustering lists them, then those only cluster_assn refers to; objects
\* nothing refers to are collected.
RECURSIVE SetToSeq(_)
SetToSeq(S) ==
  IF S = {} THEN <<>>
  ELSE LET m == CHOOSE x \in S : \A y \in S : x <= y
       IN <<m>> \o SetToSeq(S \ {m})

Renumber(cl, ca, hp) ==
  LET order == cl \o SetToSeq(Range(ca) \ Range(cl))
      ren(o) == CHOOSE r \in 1..Len(order) :
                  order[r] = o /\ \A q \in 1..(r - 1) : order[q] # o
  IN [clustering |-> [j \in 1..Len(cl) |-> ren(cl[j])],
      cluster_assn |-> [j \in 1..Len(ca) |-> ren(ca[j])],
      heap |-> [o \in Ids |-> IF o <= Len(order) THEN hp[order[o]] ELSE {}]]

\* ------------------------------------------------------- the CRP prior
\* a prior whose new-cluster weight is never below 1
CrpPriorNum_floor(cl, hp, a) ==
  [j \in 1..(Len(cl) + 1) |->
     IF j <= Len(cl) THEN Cardinality(hp[cl[j]]) ELSE IF a < 1 THEN 1 ELSE a]

\* crp_prior as numerators over the common denominator n + alpha
CrpPriorNum(cl, hp, a) ==
  [j \in 1..(Len(cl) + 1) |-> IF j <= Len(cl) THEN Cardinality(hp[cl[j]]) ELSE a]

\* a denominator that counts the item being placed as well
CrpPriorDen_all(n, a) == n + 1 + a

CrpPriorDen(n, a) == n + a

\* ------------------------------------------- crp_prior * likelihood (numpy)
Broadcastable(K, L) == K = L \/ K = 1 \/ L = 1

BroadcastLen(K, L) == IF K = L THEN K ELSE IF K = 1 THEN L ELSE K

\* probs before normalisation, as numerators with the sign of each entry
Combine(prior, den, lik) ==
  LET K == Len(prior)
      L == Len(lik)
  IN [j \in 1..BroadcastLen(K, L) |->
        prior[IF K = 1 THEN 1 ELSE j] * lik[IF L = 1 THEN 1 ELSE j] * Sgn(den)]

\* probs / np.sum(probs): numerators over the denominator |sum|
Normalise(w) == [j \in 1..Len(w) |-> w[j] * Sgn(SumSeq(w))]

\* ------------------------------------------------- np.random.choice(p=probs)
\* cdf = p.cumsum(); cdf.searchsorted(u, side='right'): the number of entries
\* of cdf that are <= u, for u = unum/uden and p = pnum/pden
Cdf(pnum, j) == SumSeq(SubSeq(pnum, 1, j))

Choice(pnum, pden, unum, uden) ==
  Cardinality({j \in 1..Len(pnum) : Cdf(pnum, j) * uden <= unum * pden})

\* --------------------------------------------------- the likelihood provider
\* likelihood_fn is supplied by the caller; four families of providers:
\*   uniform   the fixed function returning all ones, of the right length
\*   positive  the right length, every entry in 1..MaxLik
\*   signed    the right length, every entry in -1..1
\*   anylen    all ones, of any length 0..k+2
Providers == {"uniform", "positive", "signed", "anylen"}

Likelihoods(fn, k) ==
  CASE fn = "uniform"  -> {[j \in 1..(k + 1) |-> 1]}
    [] fn = "positive" -> [1..(k + 1) -> 1..MaxLik]
    [] fn = "signed"   -> [1..(k + 1) -> -1..1]
    [] fn = "anylen"   -> {[j \in 1..L |-> 1] : L \in 0..(k + 2)}

\* ----------------------------------------------------------- one proposal
\* lines 69-76 and 96-103: the prior, the likelihood, the product, the
\* normalisation and the draw.  The result is the set of outcomes the step can
\* have: an exception, or the index drawn with the sample it consumed.
NoDraw(e) == [err |-> e, cluster |-> -1, u |-> -1]

\* a draw from a generator the caller's seed does not reach
Samples_fresh(pden) == {<<m, UDen>> : m \in 0..(UDen - 1)}

\* the uniform sample of a draw: under a seeded source the next sample of the
\* seed's stream; otherwise any sample, to the resolution of the probabilities
Samples(pden) ==
  IF seeded
    THEN IF rng_pos < Len(stream) THEN {<<stream[rng_pos + 1], UDen>>}
         ELSE {<<m, UDen>> : m \in 0..(UDen - 1)}
    ELSE {<<m, pden>> : m \in 0..(pden - 1)}

Propose(cl, hp, n, a, lik) ==
  LET prior == CrpPriorNum(cl, hp, a)
      den   == CrpPriorDen(n, a)
  IN IF den = 0 THEN {NoDraw("ZeroDivisionError")}
     ELSE IF ~Broadcastable(Len(prior), Len(lik)) THEN {NoDraw("ValueError")}
     ELSE LET w == Combine(prior, den, lik)
              s == SumSeq(w)
              p == Normalise(w)
          IN IF Len(w) = 0 THEN {NoDraw("ValueError")}
             ELSE IF s = 0 /\ \E j \in 1..Len(w) : w[j] # 0
               \* entries +inf and -inf: "probabilities are not non-negative"
               THEN {NoDraw("ValueError")}
             ELSE IF s = 0
               \* every entry is nan: newer numpy raises, older numpy passes both
               \* of its checks and searchsorted answers 0
               THEN {NoDraw("ValueError"), [err |-> "none", cluster |-> 0, u |-> -1]}
             ELSE IF \E j \in 1..Len(p) : p[j] < 0 THEN {NoDraw("ValueError")}
             ELSE {[err |-> "none", cluster |-> Choice(p, Abs(s), x[1], x[2]), u |-> x[1]]
                     : x \in Samples(Abs(s))}

\* what the proposal looked like, for the observation of the run
ProbsOf(cl, hp, n, a, lik) ==
  LET prior == CrpPriorNum(cl, hp, a)
      den   == CrpPriorDen(n, a)
      ok    == den # 0 /\ Broadcastable(Len(prior), Len(lik))
      w     == IF ok THEN Combine(prior, den, lik) ELSE <<>>
  IN [k |-> Len(cl), len |-> Len(lik), n |-> n, den |-> den, combined |-> ok,
      zero |-> ok /\ SumSeq(w) = 0,
      neg |-> ok /\ \E j \in 1..Len(w) : w[j] < 0]

\* ------------------------------------------------------------------ Init
\* The state after construction and configuration.  __init__ sets the
\* defaults; a caller may then assign num_iter, eb_start and eb_interval.
Config(a, fn, ni, es, ei, n) ==
  [alpha |-> a, likelihood_fn |-> fn, num_iter |-> ni, eb_start |-> es,
   eb_interval |-> ei, num_data |-> n]

\* a sampler as the specification asks for it, with a few sweeps; eb_start
\* and eb_interval are 0 and 1, or 1 and 2
ShortRuns ==
  {Config(a, "uniform", MaxIter, es, es + 1, n) :
     a \in 1..MaxAlpha, es \in 0..1, n \in 1..MaxN}

\* the sampler as __init__ leaves it, on a one-item dataset
LongRuns ==
  {Config(a, "uniform", DefaultNumIter, DefaultEbStart, DefaultEbInterval, 1) :
     a \in 1..(MaxAlpha + 1)}

\* alpha, num_iter or eb_interval outside the documented range
BadConfigs ==
  {Config(a, "uniform", 2, 0, 1, n) : a \in -MaxAlpha..0, n \in 1..MaxN}
  \cup {Config(1, "uniform", ni, 0, 1, n) : ni \in -1..0, n \in 1..MaxN}
  \cup {Config(1, "uniform", 2, 0, ei, n) : ei \in -1..0, n \in 1..MaxNLik}

\* the other providers, those that break the contract among them
OtherProviders ==
  {Config(a, fn, 2, 0, 1, n) :
     a \in 1..MaxAlpha, fn \in {"positive", "signed", "anylen"},
     n \in 1..MaxNLik}

\* a strictly positive provider with unequal entries, over sweeps enough for
\* Empirical Bayes to write alpha and later sweeps to run under what it wrote
PositiveRuns ==
  {Config(a, "positive", MaxIter, 0, 1, MaxNLik) : a \in 1..MaxAlpha}

\* runs whose only adjustment of alpha is followed by a sweep without one:
\* eb_interval = MaxIter and MaxIter + 2 sweeps, so that sweep MaxIter
\* adjusts and sweep MaxIter + 1, the last, does not
TrailingRuns ==
  {Config(a, "uniform", MaxIter + 2, 0, MaxIter, 2) : a \in 1..MaxAlpha}

Configs ==
  ShortRuns \cup LongRuns \cup BadConfigs \cup OtherProviders \cup PositiveRuns
    \cup TrailingRuns

\* the runs under a seeded source: two items, two sweeps, alpha adjusted
\* by the second
SeededConfigs ==
  {Config(a, "uniform", 2, 0, 1, 2) : a \in 1..MaxAlpha}

NoStep == [k |-> 0, len |-> 0, n |-> 0, den |-> 0, combined |-> FALSE,
           zero |-> FALSE, neg |-> FALSE, res |-> "none", cluster |-> -1]

NoOutput == [clustering |-> <<>>, cluster_assn |-> <<>>]

\* alpha0: the constructor's alpha; alpha_call: alpha when the current fit was
\* called; fits: calls of fit so far (counted under a seeded source); sweeps: sweeps completed by the current
\* fit; log: the removals and assignments of the current phase (the
\* initialization or the current sweep); created: by how much
\* clustering grew in the reassign steps of the current sweep; eb_log: the sweep indices at which the
\* current fit overwrote alpha; written: by how much clustering grew in the
\* last of those sweeps (-1 before the first); step: the last proposal; draws: the indices
\* drawn by the current fit, and first: what the first fit returned (both kept
\* only under a seeded source)
Hist0 == [alpha0 |-> 0, alpha_call |-> 0, fits |-> 0, sweeps |-> 0,
          log |-> <<>>, created |-> 0, eb_log |-> {}, written |-> -1,
          step |-> NoStep, draws |-> <<>>,
          first |-> [returned |-> FALSE, alpha_call |-> 0, draws |-> <<>>,
                     output |-> NoOutput]]

InitWith(c, sd) ==
  /\ alpha = c.alpha
  /\ likelihood_fn = c.likelihood_fn
  /\ num_iter = c.num_iter
  /\ eb_start = c.eb_start
  /\ eb_interval = c.eb_interval
  /\ num_data = c.num_data
  /\ clustering = <<>>
  /\ cluster_assn = <<>>
  /\ heap = [o \in Ids |-> {}]
  /\ t = 0
  /\ i = 0
  /\ num_new_clusters = 0
  /\ pc = "idle"
  /\ err = "none"
  /\ seeded = sd
  /\ stream = <<>>
  /\ rng_pos = 0
  /\ hist = [Hist0 EXCEPT !.alpha0 = c.alpha, !.alpha_call = c.alpha]

Init == \E c \in Configs : InitWith(c, FALSE)

InitSeeded == \E c \in SeededConfigs : InitWith(c, TRUE)

\* ------------------------------------------------------- pieces of the steps
\* a reassign that records a copy of the chosen cluster, set(clustering[cluster]),
\* taken before the item is added
Assign_copy(cl, ca, hp, c, item) ==
  LET s == NewObject(cl, ca)
  IN IF c = Len(cl)
       THEN [err |-> "none", clustering |-> Append(cl, s),
             heap |-> [hp EXCEPT ![s] = {item}], ref |-> s, new |-> TRUE]
     ELSE IF c < Len(cl)
       THEN [err |-> "none", clustering |-> cl,
             heap |-> [hp EXCEPT ![cl[c + 1]] = @ \cup {item}, ![s] = hp[cl[c + 1]]],
             ref |-> s, new |-> FALSE]
     ELSE [err |-> "IndexError", clustering |-> cl, heap |-> hp, ref |-> 0,
           new |-> FALSE]

\* a reassign that opens the new cluster at the front of the list
Assign_front(cl, ca, hp, c, item) ==
  LET s == NewObject(cl, ca)
  IN IF c = Len(cl)
       THEN [err |-> "none", clustering |-> <<s>> \o cl,
             heap |-> [hp EXCEPT ![s] = {item}], ref |-> s, new |-> TRUE]
     ELSE IF c < Len(cl)
       THEN [err |-> "none", clustering |-> cl,
             heap |-> [hp EXCEPT ![cl[c + 1]] = @ \cup {item}],
             ref |-> cl[c + 1], new |-> FALSE]
     ELSE [err |-> "IndexError", clustering |-> cl, heap |-> hp, ref |-> 0,
           new |-> FALSE]

\* lines 78-83 and 104-110: apply the drawn index to the partition
Assign(cl, ca, hp, c, item) ==
  IF c = Len(cl)
    THEN LET s == NewObject(cl, ca)
         IN [err |-> "none", clustering |-> Append(cl, s),
             heap |-> [hp EXCEPT ![s] = {item}], ref |-> s, new |-> TRUE]
  ELSE IF c < Len(cl)
    THEN [err |-> "none", clustering |-> cl,
          heap |-> [hp EXCEPT ![cl[c + 1]] = @ \cup {item}],
          ref |-> cl[c + 1], new |-> FALSE]
  ELSE [err |-> "IndexError", clustering |-> cl, heap |-> hp, ref |-> 0,
        new |-> FALSE]

\* a remove step that leaves the item in its old cluster
Detach_stay(cl, ca, hp, item) == [err |-> "none", clustering |-> cl, heap |-> hp]

\* lines 93-95: take the item out of its cluster, delete the cluster if empty
Detach(cl, ca, hp, item) ==
  LET o   == ca[item + 1]
      hp1 == [hp EXCEPT ![o] = @ \ {item}]
  IN IF item \notin hp[o]
       THEN [err |-> "KeyError", clustering |-> cl, heap |-> hp]
     ELSE IF hp1[o] # {}
       THEN [err |-> "none", clustering |-> cl, heap |-> hp1]
     ELSE IF \A j \in 1..Len(cl) : hp1[cl[j]] # hp1[o]
       THEN [err |-> "ValueError", clustering |-> cl, heap |-> hp1]
     ELSE [err |-> "none", clustering |-> ListRemove(cl, hp1, hp1[o]),
           heap |-> hp1]

\* the docstring's reading, "the trial where the adjustment begins"
EbTrigger_ge(tt, interval, start) == PyMod(tt, interval) = 0 /\ tt >= start

\* line 112: t % self.eb_interval == 0 and t > self.eb_start
EbTrigger(tt, interval, start) == PyMod(tt, interval) = 0 /\ tt > start

\* what fit returns, by value
Output == [clustering |-> [j \in 1..Len(clustering) |-> heap[clustering[j]]],
           cluster_assn |-> [j \in 1..Len(cluster_assn) |-> heap[cluster_assn[j]]]]

\* the sample a draw consumed from a seeded source
Consume(r) ==
  /\ stream' = IF seeded /\ r.u >= 0 /\ rng_pos >= Len(stream)
                 THEN Append(stream, r.u) ELSE stream
  /\ rng_pos' = IF seeded /\ r.u >= 0 THEN rng_pos + 1 ELSE rng_pos

StepOf(cl, hp, n, a, lik, r, e) ==
  [k |-> Len(cl), len |-> Len(lik), n |-> n, den |-> CrpPriorDen(n, a),
   combined |-> ProbsOf(cl, hp, n, a, lik).combined,
   zero |-> ProbsOf(cl, hp, n, a, lik).zero,
   neg |-> ProbsOf(cl, hp, n, a, lik).neg,
   res |-> IF r.err # "none" THEN "raised" ELSE IF e # "none" THEN "drawn_raised"
           ELSE "assigned",
   cluster |-> r.cluster]

Raise(e) ==
  /\ pc' = "error"
  /\ err' = e

\* ---------------------------------------------------------------- actions
\* fit is called (lines 86-89, 65-66); a seeded caller re-seeds the source
fit_begin ==
  /\ pc \in {"idle", "done"}
  /\ seeded => hist.fits < MaxFits
  /\ clustering' = <<>>
  /\ cluster_assn' = <<>>
  /\ heap' = [o \in Ids |-> {}]
  /\ i' = 0
  /\ t' = 0
  /\ num_new_clusters' = 0
  /\ pc' = "init"
  /\ rng_pos' = 0
  /\ hist' = [hist EXCEPT !.fits = IF seeded THEN @ + 1 ELSE @, !.alpha_call = alpha, !.sweeps = 0,
                          !.log = <<>>, !.created = 0, !.eb_log = {},
                          !.written = -1, !.step = NoStep, !.draws = <<>>]
  /\ UNCHANGED <<alpha, likelihood_fn, num_iter, eb_start, eb_interval,
                 num_data, err, seeded, stream>>

\* one pass of the loop of initialize_assn (lines 68-83)
initialize_assn_step ==
  /\ pc = "init"
  /\ i < num_data
  /\ \E lik \in Likelihoods(likelihood_fn, Len(clustering)) :
     \E r \in Propose(clustering, heap, i, alpha, lik) :
       LET a == IF r.err = "none"
                  THEN Assign(clustering, cluster_assn, heap, r.cluster, i)
                  ELSE [err |-> r.err, clustering |-> clustering, heap |-> heap,
                        ref |-> 0, new |-> FALSE]
           st == StepOf(clustering, heap, i, alpha, lik, r, a.err)
       IN /\ Consume(r)
          /\ IF a.err # "none"
               THEN /\ Raise(a.err)
                    /\ hist' = [hist EXCEPT !.step = st]
                    /\ UNCHANGED <<clustering, cluster_assn, heap, i>>
               ELSE /\ LET c == Renumber(a.clustering,
                                           Append(cluster_assn, a.ref), a.heap)
                       IN /\ clustering' = c.clustering
                          /\ heap' = c.heap
                          /\ cluster_assn' = c.cluster_assn
                    /\ i' = i + 1
                    /\ hist' = [hist EXCEPT
                                  !.step = st,
                                  !.log = Append(@, <<"assign", i>>),
                                  !.draws = IF seeded THEN Append(@, r.cluster) ELSE @]
                    /\ UNCHANGED <<pc, err>>
  /\ UNCHANGED <<alpha, likelihood_fn, num_iter, eb_start, eb_interval,
                 num_data, t, num_new_clusters, seeded>>

\* initialize_assn returns (line 84) and fit enters its loop (line 90)
initialize_assn_return ==
  /\ pc = "init"
  /\ i >= num_data
  /\ pc' = "sweep"
  /\ t' = 0
  /\ UNCHANGED <<alpha, likelihood_fn, num_iter, eb_start, eb_interval,
                 num_data, clustering, cluster_assn, heap, i, num_new_clusters,
                 err, seeded, stream, rng_pos, hist>>

\* a sweep begins (lines 90-92)
fit_sweep_begin ==
  /\ pc = "sweep"
  /\ t < RangeLen(num_iter)
  /\ num_new_clusters' = 0
  /\ i' = 0
  /\ pc' = "remove"
  /\ hist' = [hist EXCEPT !.log = <<>>, !.created = 0]
  /\ UNCHANGED <<alpha, likelihood_fn, num_iter, eb_start, eb_interval,
                 num_data, clustering, cluster_assn, heap, t, err, seeded,
                 stream, rng_pos>>

\* the remove step of item i (lines 93-95)
fit_remove ==
  /\ pc = "remove"
  /\ LET d == Detach(clustering, cluster_assn, heap, i)
         c == Renumber(d.clustering, cluster_assn, d.heap)
     IN /\ clustering' = c.clustering
        /\ heap' = c.heap
        /\ cluster_assn' = c.cluster_assn
        /\ IF d.err # "none"
             THEN /\ Raise(d.err)
                  /\ hist' = hist
             ELSE /\ pc' = "propose"
                  /\ err' = err
                  /\ hist' = [hist EXCEPT !.log = Append(@, <<"remove", i>>)]
  /\ UNCHANGED <<alpha, likelihood_fn, num_iter, eb_start, eb_interval,
                 num_data, t, i, num_new_clusters, seeded, stream, rng_pos>>

\* the propose, sample and reassign steps of item i (lines 96-110)
fit_reassign ==
  /\ pc = "propose"
  /\ \E lik \in Likelihoods(likelihood_fn, Len(clustering)) :
     \E r \in Propose(clustering, heap, num_data - 1, alpha, lik) :
       LET a == IF r.err = "none"
                  THEN Assign(clustering, cluster_assn, heap, r.cluster, i)
                  ELSE [err |-> r.err, clustering |-> clustering, heap |-> heap,
                        ref |-> 0, new |-> FALSE]
           st == StepOf(clustering, heap, num_data - 1, alpha, lik, r, a.err)
       IN /\ Consume(r)
          /\ IF a.err # "none"
               THEN /\ Raise(a.err)
                    /\ hist' = [hist EXCEPT !.step = st]
                    /\ UNCHANGED <<clustering, cluster_assn, heap, i,
                                   num_new_clusters>>
               ELSE /\ LET c == Renumber(a.clustering,
                                           [cluster_assn EXCEPT ![i + 1] = a.ref],
                                           a.heap)
                       IN /\ clustering' = c.clustering
                          /\ heap' = c.heap
                          /\ cluster_assn' = c.cluster_assn
                    /\ num_new_clusters' =
                         IF a.new THEN num_new_clusters + 1 ELSE num_new_clusters
                    /\ i' = i + 1
                    /\ pc' = IF i + 1 < num_data THEN "remove" ELSE "eb"
                    /\ err' = err
                    /\ hist' = [hist EXCEPT
                                  !.step = st,
                                  !.log = Append(@, <<"assign", i>>),
                                  !.created = @ + Len(a.clustering) - Len(clustering),
                                  !.draws = IF seeded THEN Append(@, r.cluster) ELSE @]
  /\ UNCHANGED <<alpha, likelihood_fn, num_iter, eb_start, eb_interval,
                 num_data, t, seeded>>

\* an Empirical Bayes step with a smoothed estimate, the count plus one
fit_empirical_bayes_smoothed ==
  /\ pc = "eb"
  /\ IF eb_interval = 0
       THEN /\ Raise("ZeroDivisionError")
            /\ UNCHANGED <<alpha, t, hist>>
       ELSE /\ alpha' = IF EbTrigger(t, eb_interval, eb_start)
                          THEN num_new_clusters + 1 ELSE alpha
            /\ t' = t + 1
            /\ pc' = "sweep"
            /\ err' = err
            /\ hist' = [hist EXCEPT
                          !.sweeps = @ + 1,
                          !.eb_log = IF EbTrigger(t, eb_interval, eb_start)
                                       THEN @ \cup {t} ELSE @,
                          !.written = IF EbTrigger(t, eb_interval, eb_start)
                                        THEN hist.created ELSE @]
  /\ UNCHANGED <<likelihood_fn, num_iter, eb_start, eb_interval, num_data,
                 clustering, cluster_assn, heap, i, num_new_clusters, seeded,
                 stream, rng_pos>>

\* the end of sweep t: Empirical Bayes (lines 111-113)
fit_empirical_bayes ==
  /\ pc = "eb"
  /\ IF eb_interval = 0
       THEN /\ Raise("ZeroDivisionError")
            /\ UNCHANGED <<alpha, t, hist>>
       ELSE /\ alpha' = IF EbTrigger(t, eb_interval, eb_start)
                          THEN num_new_clusters ELSE alpha
            /\ t' = t + 1
            /\ pc' = "sweep"
            /\ err' = err
            /\ hist' = [hist EXCEPT
                          !.sweeps = @ + 1,
                          !.eb_log = IF EbTrigger(t, eb_interval, eb_start)
                                       THEN @ \cup {t} ELSE @,
                          !.written = IF EbTrigger(t, eb_interval, eb_start)
                                        THEN hist.created ELSE @]
  /\ UNCHANGED <<likelihood_fn, num_iter, eb_start, eb_interval, num_data,
                 clustering, cluster_assn, heap, i, num_new_clusters, seeded,
                 stream, rng_pos>>

\* a return that puts back the alpha fit was called with
fit_return_restore ==
  /\ pc = "sweep"
  /\ t >= RangeLen(num_iter)
  /\ pc' = "done"
  /\ hist' = IF seeded /\ ~hist.first.returned
               THEN [hist EXCEPT !.first = [returned |-> TRUE,
                                            alpha_call |-> hist.alpha_call,
                                            draws |-> hist.draws,
                                            output |-> Output]]
               ELSE hist
  /\ alpha' = hist.alpha_call
  /\ UNCHANGED <<likelihood_fn, num_iter, eb_start, eb_interval,
                 num_data, clustering, cluster_assn, heap, t, i,
                 num_new_clusters, err, seeded, stream, rng_pos>>

\* the loop is exhausted and fit returns (line 114)
fit_return ==
  /\ pc = "sweep"
  /\ t >= RangeLen(num_iter)
  /\ pc' = "done"
  /\ hist' = IF seeded /\ ~hist.first.returned
               THEN [hist EXCEPT !.first = [returned |-> TRUE,
                                            alpha_call |-> hist.alpha_call,
                                            draws |-> hist.draws,
                                            output |-> Output]]
               ELSE hist
  /\ UNCHANGED <<alpha, likelihood_fn, num_iter, eb_start, eb_interval,
                 num_data, clustering, cluster_assn, heap, t, i,
                 num_new_clusters, err, seeded, stream, rng_pos>>

Next ==
  \/ fit_begin
  \/ initialize_assn_step
  \/ initialize_assn_return
  \/ fit_sweep_begin
  \/ fit_remove
  \/ fit_reassign
  \/ fit_empirical_bayes
  \/ fit_return

Spec == Init /\ [][Next]_vars

\* the same program under a seeded randomness source
SpecSeeded == InitSeeded /\ [][Next]_vars


\* ------------------------------------------------------------ properties
Items == 0..(num_data - 1)

\* the clusters of clustering, by value
Clusters == [j \in 1..Len(clustering) |-> heap[clustering[j]]]

Partition ==
  /\ \A j \in 1..Len(clustering) : Clusters[j] # {}
  /\ \A j, k \in 1..Len(clustering) : j # k => Clusters[j] \cap Clusters[k] = {}
  /\ UNION {Clusters[j] : j \in 1..Len(clustering)} = Items
  /\ \A x \in Items : Cardinality({j \in 1..Len(clustering) : x \in Clusters[j]}) = 1

\* C1: after initialize_assn has returned and after every completed sweep of
\* fit (and when fit has returned), the clusters of clustering are non-empty
\* and pairwise disjoint and their union is {0..N-1}, each index in exactly
\* one cluster; for every data size, alpha and provider of the model.
C1_PartitionInvariant == pc \in {"sweep", "done"} => Partition

\* two completed sweeps on three items or more, left in two clusters
C1_Witness ==
  /\ pc = "sweep"
  /\ hist.sweeps >= 2
  /\ num_data >= 3
  /\ Len(clustering) = 2

\* item j's reference is an object of clustering, and that object holds j
Coherent(j) ==
  /\ cluster_assn[j + 1] \in Range(clustering)
  /\ j \in heap[cluster_assn[j + 1]]

\* the positions of fit at which no item is between its removal and its
\* reassignment
AtItemBoundary == pc \in {"init", "sweep", "remove", "eb", "done"}

\* C2: whenever an item's reassignment has completed (after each step of the
\* initialization, for the items placed so far; after each step of a sweep,
\* for all N items), cluster_assn[j] is an object stored in clustering and
\* contains j.
C2_ReferenceCoherence ==
  AtItemBoundary =>
    /\ pc # "init" => Len(cluster_assn) = num_data
    /\ \A j \in 0..(Len(cluster_assn) - 1) : Coherent(j)

\* inside a later sweep, after item 0 was moved, with two clusters or more
C2_Witness ==
  /\ pc = "remove"
  /\ i >= 1
  /\ hist.sweeps >= 1
  /\ Len(clustering) >= 2
  /\ hist.step.res = "assigned"

\* interval divides s, without the program's modulo
Divides(interval, s) == \E q \in (-s)..s : q * interval = s

\* the sweep indices below n at which the specification's rule adjusts alpha
Scheduled(n) == {s \in 0..(n - 1) : Divides(eb_interval, s) /\ s > eb_start}

C3_Schedule ==
  /\ eb_interval # 0 => hist.eb_log = Scheduled(hist.sweeps)
  /\ \A s1, s2 \in hist.eb_log : s1 < s2 => s2 - s1 >= eb_interval
  /\ (eb_start = DefaultEbStart /\ eb_interval = DefaultEbInterval) =>
       /\ \A s \in hist.eb_log : s >= DefaultEbStart + DefaultEbInterval
       /\ hist.sweeps <= DefaultEbStart + DefaultEbInterval =>
            alpha = hist.alpha_call
       /\ hist.sweeps > DefaultEbStart + DefaultEbInterval =>
            DefaultEbStart + DefaultEbInterval \in hist.eb_log

C3_Write ==
  /\ (pc = "eb" /\ pc' = "sweep") =>
       /\ (t \in hist'.eb_log) = (Divides(eb_interval, t) /\ t > eb_start)
       /\ alpha' = IF t \in hist'.eb_log THEN hist.created ELSE alpha
  /\ ~(pc = "eb" /\ pc' = "sweep") => alpha' = alpha

\* C3: alpha is overwritten at the end of sweep t exactly when eb_interval
\* divides t and t > eb_start, with the number of clusters created in that
\* sweep, and changes at no other step; so the sweeps at which it was written
\* are those the rule schedules, at least eb_interval apart, and under the
\* defaults 20 and 5 none is below 25 and alpha keeps the value it had at the
\* call through sweep 24.
C3_EmpiricalBayesTrigger == []C3_Schedule /\ [][C3_Write]_vars

\* sweep 25 of a run with the defaults has just written alpha
C3_Witness ==
  /\ eb_start = DefaultEbStart
  /\ eb_interval = DefaultEbInterval
  /\ pc = "sweep"
  /\ hist.sweeps = DefaultEbStart + DefaultEbInterval + 1
  /\ hist.eb_log = {DefaultEbStart + DefaultEbInterval}
  /\ alpha # hist.alpha_call

ValidProvider == likelihood_fn \in {"uniform", "positive"}

ValidConstruction == hist.alpha0 > 0 /\ num_iter > 0 /\ eb_interval > 0

\* the log of a completed initialization, and of a completed sweep
InitLog == [j \in 1..num_data |-> <<"assign", j - 1>>]

SweepLog ==
  [j \in 1..(2 * num_data) |->
     IF j % 2 = 1 THEN <<"remove", (j - 1) \div 2>> ELSE <<"assign", (j - 2) \div 2>>]

C4_Order ==
  /\ (pc = "sweep" /\ hist.sweeps = 0) => hist.log = InitLog
  /\ (pc \in {"eb", "sweep", "done"} /\ hist.sweeps > 0) => hist.log = SweepLog
  /\ pc = "done" => /\ hist.sweeps = num_iter
                     /\ Len(cluster_assn) = num_data
                     /\ Len(Output.cluster_assn) = num_data

\* C4: with a provider that always returns a valid vector (and a sampler
\* constructed as documented), no call of fit fails: it places the items
\* 0..N-1 in ascending order, then makes exactly num_iter sweeps, each
\* removing and reassigning every item once in ascending order, and returns.
C4_SweepsAndTermination ==
  (ValidProvider /\ ValidConstruction) => (pc # "error" /\ C4_Order)

\* C5: on a one-item dataset every fit that returns leaves exactly one
\* cluster, {0}, and cluster_assn[0] is that cluster, whatever alpha was at
\* construction and whatever Empirical Bayes wrote during the run.
C5_SingleItem ==
  (num_data = 1 /\ pc = "done") =>
    /\ Len(clustering) = 1
    /\ heap[clustering[1]] = {0}
    /\ cluster_assn = <<clustering[1]>>

\* a one-item fit has returned after Empirical Bayes changed alpha
C5_Witness ==
  /\ num_data = 1
  /\ pc = "done"
  /\ hist.sweeps > 0
  /\ hist.eb_log # {}
  /\ alpha # hist.alpha0

LaterFitReturned ==
  /\ seeded
  /\ pc = "done"
  /\ hist.fits >= 2
  /\ hist.first.returned

SameAsFirst ==
  /\ hist.draws = hist.first.draws
  /\ Output = hist.first.output

\* C6 as stated: every later fit on the same sampler, with the same data,
\* provider and seed, draws and returns what the first fit did.
C6_RepeatedRunsIdentical == LaterFitReturned => SameAsFirst

\* C6: a later fit with the same data, provider and seed, called with the
\* alpha the first fit was called with, goes through the same draws and
\* returns the same clustering and cluster_assn as the first.
C6_Determinism ==
  (LaterFitReturned /\ hist.alpha_call = hist.first.alpha_call) => SameAsFirst

\* a second seeded fit has returned, called with the first one's alpha, and
\* left two clusters
C6_Witness ==
  /\ LaterFitReturned
  /\ hist.alpha_call = hist.first.alpha_call
  /\ Len(hist.draws) = num_data * (num_iter + 1)
  /\ Len(clustering) = 2

\* C7: a step whose combined prior x likelihood vector sums to zero or has
\* a negative entry raises before anything is drawn or assigned.
C7_InvalidProbabilityVector ==
  (hist.step.combined /\ (hist.step.zero \/ hist.step.neg)) =>
    hist.step.res = "raised"

\* C8: under a configuration with alpha <= 0, num_iter <= 0 or
\* eb_interval <= 0 no item is ever placed or moved.
C8_InvalidConfiguration ==
  (hist.alpha0 <= 0 \/ num_iter <= 0 \/ eb_interval <= 0) =>
    (cluster_assn = <<>> /\ clustering = <<>> /\ hist.log = <<>>)

\* C9: a step whose likelihood vector has a length other than the number of
\* clusters + 1 raises before anything is drawn or assigned.
C9_ContractViolation ==
  (hist.step.res # "none" /\ hist.step.len # hist.step.k + 1) =>
    hist.step.res = "raised"

\* C10: alpha is never adjusted at a sweep index below eb_start, and when
\* eb_interval divides eb_start the first adjustment is at the end of sweep
\* eb_start.
C10_EbStartDocstring ==
  /\ \A s \in hist.eb_log : s >= eb_start
  /\ (eb_interval > 0 /\ Divides(eb_interval, eb_start) /\ hist.sweeps > eb_start) =>
       eb_start \in hist.eb_log

\* the clusters of clustering partition the items other than x, and x is in
\* none of them
PartitionWithout(x) ==
  /\ \A j \in 1..Len(clustering) : Clusters[j] # {}
  /\ \A j, k \in 1..Len(clustering) : j # k => Clusters[j] \cap Clusters[k] = {}
  /\ UNION {Clusters[j] : j \in 1..Len(clustering)} = Items \ {x}
  /\ \A j \in 1..Len(clustering) : x \notin Clusters[j]

\* the item boundaries of the sweeps: before the removal of an item, after
\* the last reassignment of a sweep, between sweeps, and when fit has returned
AtSweepBoundary == pc \in {"remove", "eb", "sweep", "done"}

\* C11: between the remove and the reassign of item i (where the prior and
\* the likelihood are computed) item i is in no cluster of clustering and the
\* clusters are non-empty, pairwise disjoint and have union {0..N-1} \ {i}, so
\* the partition invariant is violated there; at every item boundary of a
\* sweep, and between sweeps, it holds.
C11_MidItemWindow ==
  /\ pc = "propose" => (PartitionWithout(i) /\ ~Partition)
  /\ AtSweepBoundary => Partition

\* mid-item in a later sweep, the removal having emptied and deleted the
\* item's cluster, with two clusters left
C11_Witness ==
  /\ pc = "propose"
  /\ hist.sweeps >= 1
  /\ num_data >= 3
  /\ i >= 1
  /\ Len(clustering) = 2
  /\ heap[cluster_assn[i + 1]] = {}

\* the number of items held in clustering: the sum of the cluster sizes
Held == SumSeq([j \in 1..Len(clustering) |-> Cardinality(Clusters[j])])

\* the positions at which the next step computes the prior
AtPrior == (pc = "init" /\ i < num_data) \/ pc = "propose"

\* the n the code writes into the denominator there
PriorN == IF pc = "init" THEN i ELSE num_data - 1

C12_State ==
  AtPrior =>
    /\ PriorN = Held
    /\ Len(CrpPriorNum(clustering, heap, alpha)) = Len(clustering) + 1
    /\ SumSeq(CrpPriorNum(clustering, heap, alpha)) = Held + alpha
    /\ CrpPriorDen(PriorN, alpha) = Held + alpha

\* what the step that computes the prior used
C12_Step ==
  AtPrior =>
    /\ hist'.step.n = Held
    /\ hist'.step.den = Held + alpha
    /\ hist'.step.k = Len(clustering)

\* C12: whenever the prior is computed, the n of its denominator is the
\* number of items held in clustering (i at step i of the initialization,
\* N-1 at every step of a sweep), so the numerators (the cluster sizes and
\* alpha) sum to n + alpha, the denominator, and the vector has one entry
\* per cluster and one more.
C12_PriorDenominator == []C12_State /\ [][C12_Step]_vars

\* a step of a later sweep has computed the prior over two clusters or more
\* and assigned its item
C12_Witness ==
  /\ pc \in {"remove", "eb"}
  /\ hist.sweeps >= 1
  /\ hist.step.res = "assigned"
  /\ hist.step.k >= 2
  /\ hist.step.n = num_data - 1
  /\ hist.step.den = num_data - 1 + alpha

\* a reassignment has completed: of the initialization, of a sweep
InitAssigned == pc = "init" /\ i' = i + 1

SweepAssigned == pc = "propose" /\ pc' \in {"remove", "eb"}

\* the positions of clustering at which the reference of item j is stored
PositionsOf(j) == {p \in 1..Len(clustering) : clustering[p] = cluster_assn[j + 1]}

\* the effect of outcome c on the list as it was when the prior was computed
AssignEffect(c) ==
  /\ c <= Len(clustering)
  /\ c < Len(clustering) =>
       /\ Clusters' = [Clusters EXCEPT ![c + 1] = @ \cup {i}]
       /\ Len(clustering') = Len(clustering)
  /\ c = Len(clustering) => Clusters' = Append(Clusters, {i})
  /\ cluster_assn'[i + 1] = clustering'[c + 1]
  /\ \A j \in 0..(Len(cluster_assn) - 1) :
       j # i => /\ heap'[cluster_assn'[j + 1]] \ {i} = heap[cluster_assn[j + 1]] \ {i}
                /\ PositionsOf(j)' = PositionsOf(j)

C13_Step ==
  /\ InitAssigned => AssignEffect(hist'.step.cluster)
  /\ SweepAssigned =>
       /\ AssignEffect(hist'.step.cluster)
       /\ num_new_clusters' =
            IF hist'.step.cluster = Len(clustering)
              THEN num_new_clusters + 1 ELSE num_new_clusters

\* C13: with k clusters in the list after the removal, outcome j < k adds
\* item i to the cluster at position j of that list, creates no cluster and
\* leaves the new-cluster counter unchanged; outcome k appends the singleton
\* {i} at the end and adds exactly 1 to the counter; either way every other
\* item keeps its cluster, and the other clusters their members and order.
C13_ReassignEffect == [][C13_Step]_vars

\* a step of a later sweep found two clusters and opened a third
C13_Witness ==
  /\ pc \in {"remove", "eb"}
  /\ hist.sweeps >= 1
  /\ hist.step.res = "assigned"
  /\ hist.step.k = 2
  /\ hist.step.cluster = 2
  /\ Len(clustering) = 3
  /\ num_new_clusters >= 1

\* the remove step of an item has completed
Removed == pc = "remove" /\ pc' = "propose"

\* the positions of clustering whose cluster holds item x
HoldersOf(x) == {p \in 1..Len(clustering) : x \in Clusters[p]}

\* a list without its element at position p
Without(s, p) == SubSeq(s, 1, p - 1) \o SubSeq(s, p + 1, Len(s))

C14_Step ==
  Removed =>
    /\ Cardinality(HoldersOf(i)) = 1
    /\ HoldersOf(i) = PositionsOf(i)
    /\ LET p == CHOOSE q \in HoldersOf(i) : TRUE
       IN /\ \A q \in 1..Len(clustering) : q # p => Clusters[q] # {}
          /\ Clusters[p] = {i} =>
               /\ Clusters' = Without(Clusters, p)
               /\ Len(clustering') = Len(clustering) - 1
          /\ Clusters[p] # {i} =>
               /\ Clusters' = [Clusters EXCEPT ![p] = @ \ {i}]
               /\ Len(clustering') = Len(clustering)

\* C14: the remove step of item i deletes a cluster from clustering exactly
\* when i was its only member, and then the cluster deleted is the one i
\* left (no other cluster is empty, so the match by value finds it); every
\* other cluster keeps its members and its place in the order, and the
\* number of clusters drops by 0 or by 1.
C14_RemoveEffect == [][C14_Step]_vars

\* item 0 of a later sweep was alone in its cluster, which was deleted,
\* leaving the one cluster of the two other items
C14_Witness ==
  /\ pc = "propose"
  /\ hist.sweeps >= 1
  /\ num_data = 3
  /\ i = 0
  /\ heap[cluster_assn[1]] = {}
  /\ Len(clustering) = 1
  /\ Clusters[1] = {1, 2}

\* C15: whatever Empirical Bayes has written into alpha is a count of the
\* clusters one sweep created, an integer in 0..N; and 0 is among the values
\* it writes: with two items or more, a positive constructor alpha and a
\* strictly positive provider, a triggering sweep that creates no cluster
\* leaves alpha = 0 (the state C15_Witness, which is reached).
C15_AlphaRange ==
  /\ hist.eb_log # {} => alpha \in 0..num_data
  /\ alpha # hist.alpha0 => alpha \in 0..num_data
  /\ (pc = "sweep" /\ hist.sweeps > 0 /\ (hist.sweeps - 1) \in hist.eb_log) =>
       alpha = hist.created

\* a sweep over two items under a strictly positive provider, begun with a
\* positive alpha, created no cluster and triggered the update: alpha is 0
C15_Witness ==
  /\ likelihood_fn = "positive"
  /\ num_data >= 2
  /\ hist.alpha0 > 0
  /\ hist.alpha_call > 0
  /\ pc = "sweep"
  /\ (hist.sweeps - 1) \in hist.eb_log
  /\ hist.created = 0
  /\ alpha = 0

\* inside the sweeps of a fit, with alpha = 0, two items or more and a
\* strictly positive provider
Absorbed ==
  /\ alpha = 0
  /\ num_data >= 2
  /\ ValidProvider
  /\ pc \in {"sweep", "remove", "propose", "eb"}

C16_State ==
  Absorbed =>
    /\ num_new_clusters = 0
    /\ pc = "propose" =>
         /\ Len(clustering) >= 1
         /\ CrpPriorDen(num_data - 1, alpha) > 0
         /\ CrpPriorNum(clustering, heap, alpha)[Len(clustering) + 1] = 0
         /\ \E j \in 1..Len(clustering) :
              CrpPriorNum(clustering, heap, alpha)[j] > 0

C16_Step ==
  Absorbed =>
    /\ alpha' = 0
    /\ pc' # "error"
    /\ Len(clustering') <= Len(clustering)
    /\ num_new_clusters' = 0
    /\ pc = "propose" => /\ hist'.step.res = "assigned"
                         /\ hist'.step.cluster < Len(clustering)
    /\ pc = "eb" => (t \in hist'.eb_log => hist.created = 0)

\* C16: once alpha is 0 inside the sweeps of a fit (two items or more,
\* strictly positive likelihoods), the new-cluster slot has weight 0 and is
\* never drawn: no later step of that fit creates a cluster, the number of
\* clusters never grows, every later update writes 0 and alpha stays 0 until
\* fit returns; some existing cluster always has a positive weight, and no
\* step raises.
C16_ZeroAbsorbing == []C16_State /\ [][C16_Step]_vars

\* under a provider with unequal entries, a step of a sweep that ran with
\* alpha = 0 has assigned its item to one of two existing clusters
C16_Witness ==
  /\ Absorbed
  /\ likelihood_fn = "positive"
  /\ pc \in {"remove", "eb"}
  /\ hist.eb_log # {}
  /\ hist.step.res = "assigned"
  /\ hist.step.den = hist.step.n
  /\ hist.step.n = num_data - 1
  /\ hist.step.cluster < hist.step.k

\* the last sweep index of a set of them
Last(S) == CHOOSE m \in S : \A x \in S : x <= m

\* fit is called
Called == pc \in {"idle", "done"} /\ pc' = "init"

C17_State ==
  /\ pc = "init" => alpha = hist.alpha_call
  /\ pc = "done" =>
       IF Scheduled(num_iter) = {}
         THEN alpha = hist.alpha_call /\ hist.eb_log = {}
         ELSE /\ Last(hist.eb_log) = Last(Scheduled(num_iter))
              /\ alpha = hist.written

C17_Step ==
  /\ likelihood_fn' = likelihood_fn
  /\ num_iter' = num_iter
  /\ eb_start' = eb_start
  /\ eb_interval' = eb_interval
  /\ Called => (alpha' = alpha /\ hist'.alpha_call = alpha)
  /\ pc' = "done" => alpha' = alpha

\* C17: fit writes no field of the sampler but alpha, and never puts alpha
\* back: when fit returns, alpha is what it was at the call if no sweep
\* index t < num_iter has eb_interval dividing t and t > eb_start, and
\* otherwise the number of clusters created in the last such sweep; the
\* next call of fit on the sampler starts from the alpha the previous one
\* left.
C17_FitEffect == []C17_State /\ [][C17_Step]_vars

\* a later fit, called with an alpha other than the constructor's, has
\* returned; its last adjusting sweep was not its last sweep and created
\* another number of clusters than the last sweep did
C17_Witness ==
  /\ pc = "done"
  /\ num_data >= 2
  /\ hist.alpha_call # hist.alpha0
  /\ hist.eb_log # {}
  /\ Last(hist.eb_log) < num_iter - 1
  /\ alpha = hist.written
  /\ hist.written # hist.created

====
